---- MODULE Spec2Model ----
(***************************************************************************)
(* A model of multicsv: SubTextIO (a buffered view of the range            *)
(* [start, end) of a base text stream) and MultiCSVFile (an ordered        *)
(* mapping from section names to streams, parsed from bracketed header     *)
(* lines of the base and written back as a whole on flush).                *)
(*                                                                         *)
(* Text is a sequence of one-character strings.  The base stream is an     *)
(* in-memory text stream with the behaviour of io.StringIO (the base the   *)
(* repository's tests use), with a capability tag for read-only and        *)
(* write-only bases.                                                       *)
(***************************************************************************)
EXTENDS Integers, Sequences, FiniteSets, TLC

\* base: the base stream; sub: the SubTextIO under test; file: the
\* MultiCSVFile; hist: what the properties need to remember (the base content
\* when sub was constructed, whether sub was written or truncated since its
\* last flush, how often it was flushed); last: the last call, its argument,
\* what it returned and the error it raised
VARIABLES base, sub, file, hist, last

\* the name and the outcome of the last call stand first, so that two states
\* are told apart by them before the arguments and results of calls of
\* different kinds are compared
vars == <<last.op, last.err, base, sub, file, hist, last>>

----------------------------------------------------------------------------
(* Bounds of the model.                                                    *)

\* longest base content of the SubTextIO specifications
MaxBase == 2
\* longest buffer, and furthest cursor, a write may produce
MaxBuf == 3
\* most flushes of one SubTextIO
MaxFlushes == 2
\* most lines of a base of the MultiCSVFile specification
MaxLines == 3
\* most entries of the mapping
MaxSections == 3
\* most sets, deletes, section writes and section truncates of one run
MaxOps == 1

NL == "\n"
\* the character a text stream pads with when it is written past its end
NUL == "NUL"

Min(a, b) == IF a < b THEN a ELSE b
Max(a, b) == IF a > b THEN a ELSE b

\* all sequences over S of length at most n
RECURSIVE SeqsUpTo(_, _)
SeqsUpTo(S, n) ==
    IF n = 0 THEN {<<>>}
    ELSE LET shorter == SeqsUpTo(S, n - 1)
         IN  shorter \cup {Append(t, c) : t \in shorter, c \in S}

RECURSIVE Concat(_)
Concat(ss) == IF ss = <<>> THEN <<>> ELSE Head(ss) \o Concat(Tail(ss))

----------------------------------------------------------------------------
(* Python string primitives.                                               *)

\* s[i:j] with Python's treatment of negative and out-of-range indices
PyIndex(n, i) == IF i < 0 THEN Max(n + i, 0) ELSE Min(i, n)
PySlice(s, i, j) == SubSeq(s, PyIndex(Len(s), i) + 1, PyIndex(Len(s), j))
PySliceFrom(s, i) == SubSeq(s, PyIndex(Len(s), i) + 1, Len(s))
PySliceTo(s, j) == SubSeq(s, 1, PyIndex(Len(s), j))

\* s.find(c, from): the 0-based index of the first c at or after from, or -1
PyFind(s, c, from) ==
    LET hits == {i \in from .. (Len(s) - 1) : s[i + 1] = c}
    IN  IF hits = {} THEN -1 ELSE CHOOSE i \in hits : \A j \in hits : i <= j

\* s.splitlines(keepends=True), for text whose only line terminator is "\n"
RECURSIVE SplitLinesKeep(_)
SplitLinesKeep(s) ==
    IF s = <<>> THEN <<>>
    ELSE LET k == PyFind(s, NL, 0)
         IN  IF k = -1 THEN <<s>>
             ELSE <<SubSeq(s, 1, k + 1)>> \o SplitLinesKeep(SubSeq(s, k + 2, Len(s)))

\* s.split(c)
RECURSIVE PySplit(_, _)
PySplit(s, c) ==
    LET k == PyFind(s, c, 0)
    IN  IF k = -1 THEN <<s>>
        ELSE <<SubSeq(s, 1, k)>> \o PySplit(SubSeq(s, k + 2, Len(s)), c)

IsSpace(c) == c \in {" ", NL}

\* s.strip()
RECURSIVE PyLStrip(_)
PyLStrip(s) == IF s # <<>> /\ IsSpace(Head(s)) THEN PyLStrip(Tail(s)) ELSE s
RECURSIVE PyRStrip(_)
PyRStrip(s) ==
    IF s # <<>> /\ IsSpace(s[Len(s)]) THEN PyRStrip(SubSeq(s, 1, Len(s) - 1)) ELSE s
PyStrip(s) == PyRStrip(PyLStrip(s))

----------------------------------------------------------------------------
(* The base stream: a record [content, pos, closed, mode].  mode "r+" is a *)
(* readable and writable base, "r" read-only, "w" write-only, "pipe" a     *)
(* base that cannot seek.                                                  *)

\* a base that claims to be readable whatever its mode
EveryBaseReadable(b) == TRUE

BaseReadable(b) == b.mode \in {"r+", "r"}
BaseWritable(b) == b.mode \in {"r+", "w"}
BaseSeekable(b) == b.mode # "pipe"

BaseSeek(b, p) == [b EXCEPT !.pos = p]
BaseSeekEnd(b) == [b EXCEPT !.pos = Len(b.content)]

\* the text read(n) returns, and the base after it; n < 0 reads to the end
BaseReadText(b, n) ==
    IF n < 0 THEN PySliceFrom(b.content, b.pos)
    ELSE PySlice(b.content, b.pos, b.pos + n)
BaseAfterRead(b, n) == [b EXCEPT !.pos = b.pos + Len(BaseReadText(b, n))]

\* readline(): up to and including the next "\n"
BaseLineText(b) ==
    LET k == PyFind(b.content, NL, b.pos)
    IN  IF k = -1 THEN PySliceFrom(b.content, b.pos)
        ELSE PySlice(b.content, b.pos, k + 1)
BaseAfterLine(b) == [b EXCEPT !.pos = b.pos + Len(BaseLineText(b))]

\* a write that cuts the content off after the text written
BaseWriteTruncating(b, s) ==
    [b EXCEPT !.content = PySliceTo(b.content, b.pos) \o s,
              !.pos = b.pos + Len(s)]

\* write(s): overwrite at pos, padding with NUL when pos is past the end;
\* an empty write changes nothing
BaseWrite(b, s) ==
    IF s = <<>> THEN b
    ELSE LET n   == Len(b.content)
             pad == [i \in 1 .. Max(b.pos - n, 0) |-> NUL]
         IN  [b EXCEPT !.content = PySliceTo(b.content, b.pos) \o pad \o s
                                     \o PySliceFrom(b.content, b.pos + Len(s)),
                       !.pos = b.pos + Len(s)]

\* truncate(): cut at pos; never extends
BaseTruncate(b) == [b EXCEPT !.content = PySliceTo(b.content, b.pos)]

----------------------------------------------------------------------------
(* SubTextIO.  A stream is a record; kind "sub" is a SubTextIO, kind "sio" *)
(* a free-standing in-memory text stream handed to the mapping (it has no  *)
(* range and no base), kind "none" stands for no object.                   *)

NoStream ==
    [kind |-> "none", start |-> 0, end |-> 0, buffer |-> <<>>, position |-> 0,
     closed |-> FALSE, initial_length |-> 0, is_at_end |-> FALSE]

\* a load that leaves the base cursor at the end when start is beyond it
LoadWithoutRestore(s, b) ==
    IF s.start > Len(b.content)
    THEN [s |-> s, b |-> BaseSeekEnd(b), err |-> "StartsBeyondBaseContent"]
    ELSE [s |-> [s EXCEPT !.buffer = IF s.end < Len(b.content)
                                     THEN PySlice(b.content, s.start, s.end)
                                     ELSE <<>>,
                          !.is_at_end = (s.end = Len(b.content))],
          b |-> b, err |-> "none"]

\* SubTextIO._load: the buffer and is_at_end read from the base; the base
\* cursor is restored on every path
Load(s, b) ==
    LET base_initial_position == b.pos
        b1 == BaseSeekEnd(b)
        base_last_position == b1.pos
    IN  IF s.start > base_last_position
        THEN [s |-> s, b |-> BaseSeek(b1, base_initial_position),
              err |-> "StartsBeyondBaseContent"]
        ELSE IF s.end > s.start
        THEN LET b2 == BaseSeek(b1, s.end)
                 at_end == (b2.pos = base_last_position)
             IN  IF s.end < base_last_position
                 THEN LET b3 == BaseSeek(b2, s.start)
                          text == BaseReadText(b3, s.end - s.start)
                          b4 == BaseAfterRead(b3, s.end - s.start)
                      IN  [s |-> [s EXCEPT !.buffer = text, !.is_at_end = at_end],
                           b |-> BaseSeek(b4, base_initial_position),
                           err |-> "none"]
                 ELSE [s |-> [s EXCEPT !.buffer = <<>>, !.is_at_end = at_end],
                       b |-> BaseSeek(b2, base_initial_position),
                       err |-> "none"]
        ELSE LET b2 == BaseSeekEnd(b1)
             IN  [s |-> [s EXCEPT !.buffer = <<>>,
                                  !.is_at_end = (s.start = b2.pos)],
                  b |-> BaseSeek(b2, base_initial_position),
                  err |-> "none"]

\* SubTextIO.__init__: the checks, then _load
SubTextIOInit(b, start, end) ==
    LET s0 == [NoStream EXCEPT !.kind = "sub", !.start = start, !.end = end,
                               !.closed = b.closed]
    IN  IF end < start \/ start < 0
        THEN [s |-> NoStream, b |-> b, err |-> "InvalidSubtextCoordinates"]
        ELSE IF b.closed
        THEN [s |-> NoStream, b |-> b, err |-> "ValueError"]
        ELSE IF ~BaseSeekable(b)
        THEN [s |-> NoStream, b |-> b, err |-> "BaseMustBeSeakable"]
        ELSE IF end > start /\ ~BaseReadable(b)
        THEN [s |-> NoStream, b |-> b, err |-> "BaseMustBeReadable"]
        ELSE LET r == Load(s0, b)
             IN  IF r.err # "none"
                 THEN [s |-> NoStream, b |-> r.b, err |-> r.err]
                 ELSE [s |-> [r.s EXCEPT !.initial_length = Len(r.s.buffer)],
                       b |-> r.b, err |-> "none"]

\* SubTextIO._check_closed (for a "sio" stream: the ValueError of a closed
\* text stream)
ClosedError(s) == IF s.kind = "sub" THEN "OpOnClosedError" ELSE "ValueError"

\* SubTextIO.read
ReadResult(s, size) ==
    LET n == IF size < 0 \/ size > Len(s.buffer) - s.position
             THEN Len(s.buffer) - s.position ELSE size
    IN  PySlice(s.buffer, s.position, s.position + n)

Read(s, size) ==
    IF s.closed THEN [s |-> s, ret |-> <<>>, err |-> ClosedError(s)]
    ELSE LET result == ReadResult(s, size)
         IN  [s |-> [s EXCEPT !.position = s.position + Len(result)],
              ret |-> result, err |-> "none"]

\* a readline that takes no account of its limit
ReadlineResultUncapped(s, limit) ==
    IF s.position >= Len(s.buffer) THEN <<>>
    ELSE LET found == PyFind(s.buffer, NL, s.position)
             newline_pos == IF found = -1 \/ found >= Len(s.buffer)
                            THEN Len(s.buffer) ELSE found
         IN  PySlice(s.buffer, s.position, newline_pos + 1)

\* SubTextIO.readline
ReadlineResult(s, limit) ==
    IF s.position >= Len(s.buffer) THEN <<>>
    ELSE LET found == PyFind(s.buffer, NL, s.position)
             newline_pos == IF found = -1 \/ found >= Len(s.buffer)
                            THEN Len(s.buffer) ELSE found
             lim == IF limit < 0 \/ limit > newline_pos - s.position
                    THEN newline_pos - s.position + 1 ELSE limit
         IN  PySlice(s.buffer, s.position, s.position + lim)

Readline(s, limit) ==
    IF s.closed THEN [s |-> s, ret |-> <<>>, err |-> ClosedError(s)]
    ELSE LET result == ReadlineResult(s, limit)
         IN  [s |-> [s EXCEPT !.position = s.position + Len(result)],
              ret |-> result, err |-> "none"]

\* SubTextIO.readlines: the loop over the lines of the remaining buffer,
\* which stops after the line that brings read_size to hint or more
RECURSIVE ReadlinesLoop(_, _, _, _)
ReadlinesLoop(lines, hint, read_size, result) ==
    IF lines = <<>> THEN result
    ELSE LET line == Head(lines)
             size == read_size + Len(line)
         IN  IF 0 <= hint /\ hint <= size THEN Append(result, line)
             ELSE ReadlinesLoop(Tail(lines), hint, size, Append(result, line))

ReadlinesResult(s, hint) ==
    ReadlinesLoop(SplitLinesKeep(PySliceFrom(s.buffer, s.position)), hint, 0, <<>>)

Readlines(s, hint) ==
    IF s.closed THEN [s |-> s, ret |-> <<>>, err |-> ClosedError(s)]
    ELSE LET result == ReadlinesResult(s, hint)
         IN  [s |-> [s EXCEPT !.position = s.position + Len(Concat(result))],
              ret |-> result, err |-> "none"]

\* a write that inserts at the cursor instead of overwriting
WriteBufferInserting(buffer, position, text) ==
    PySliceTo(buffer, position) \o text \o PySliceFrom(buffer, position)

\* SubTextIO.write: the buffer after write(text)
WriteBuffer(buffer, position, text) ==
    LET pre  == PySliceTo(buffer, position)
        post == PySliceFrom(buffer, position + Len(text))
    IN  pre \o text \o post

Write(s, text) ==
    IF s.closed THEN [s |-> s, ret |-> 0, err |-> ClosedError(s)]
    ELSE [s |-> [s EXCEPT !.buffer = WriteBuffer(s.buffer, s.position, text),
                          !.position = s.position + Len(text)],
          ret |-> Len(text), err |-> "none"]

\* SubTextIO.writelines: write each line in order; the first failure ends it
RECURSIVE Writelines(_, _)
Writelines(s, lines) ==
    IF lines = <<>> THEN [s |-> s, ret |-> 0, err |-> "none"]
    ELSE LET r == Write(s, Head(lines))
         IN  IF r.err # "none" THEN r
             ELSE [Writelines(r.s, Tail(lines)) EXCEPT !.ret = 0]

\* a truncate that pads the buffer with NUL up to a size past its end
TruncateBufferPadding(s, size) ==
    LET end == IF size = <<>> THEN s.position ELSE size[1]
    IN  PySliceTo(s.buffer, end)
           \o [i \in 1 .. Max(end - Len(s.buffer), 0) |-> NUL]

\* SubTextIO.truncate; size is <<>> for None (cut at the cursor), else <<n>>
TruncateBuffer(s, size) ==
    LET end == IF size = <<>> THEN s.position ELSE size[1]
    IN  PySliceTo(s.buffer, end)

\* a truncate that does not look at closed
TruncateUnchecked(s, size) ==
    [s |-> [s EXCEPT !.buffer = TruncateBuffer(s, size)],
     ret |-> Len(TruncateBuffer(s, size)), err |-> "none"]

Truncate(s, size) ==
    IF s.closed THEN [s |-> s, ret |-> 0, err |-> ClosedError(s)]
    ELSE LET buffer == TruncateBuffer(s, size)
         IN  [s |-> [s EXCEPT !.buffer = buffer],
              ret |-> Len(buffer), err |-> "none"]

\* SubTextIO.seek
SEEK_SET == 0
SEEK_CUR == 1
SEEK_END == 2

\* a seek that does not clamp its target into the buffer
SeekPositionUnclamped(s, offset, whence) ==
    IF whence = SEEK_SET THEN offset
    ELSE IF whence = SEEK_CUR THEN s.position + offset
    ELSE Len(s.buffer) + offset

SeekPosition(s, offset, whence) ==
    LET target == IF whence = SEEK_SET THEN offset
                  ELSE IF whence = SEEK_CUR THEN s.position + offset
                  ELSE Len(s.buffer) + offset
    IN  Max(0, Min(target, Len(s.buffer)))

\* a seek that takes every whence for SEEK_SET
SeekFromStart(s, offset, whence) ==
    IF s.closed THEN [s |-> s, ret |-> 0, err |-> ClosedError(s)]
    ELSE [s |-> [s EXCEPT !.position = Max(0, Min(offset, Len(s.buffer)))],
          ret |-> Max(0, Min(offset, Len(s.buffer))), err |-> "none"]

Seek(s, offset, whence) ==
    IF s.closed THEN [s |-> s, ret |-> 0, err |-> ClosedError(s)]
    ELSE IF whence \notin {SEEK_SET, SEEK_CUR, SEEK_END}
    THEN [s |-> s, ret |-> 0, err |-> "InvalidWhenceError"]
    ELSE LET position == SeekPosition(s, offset, whence)
         IN  [s |-> [s EXCEPT !.position = position],
              ret |-> position, err |-> "none"]

\* SubTextIO.tell
Tell(s) ==
    IF s.closed THEN [s |-> s, ret |-> 0, err |-> ClosedError(s)]
    ELSE [s |-> s, ret |-> s.position, err |-> "none"]

\* a flush that writes the buffer over whatever follows start
FlushOverwriting(s, b) ==
    IF s.closed \/ b.closed THEN [s |-> s, b |-> b, err |-> "none"]
    ELSE [s |-> s,
          b |-> BaseSeek(BaseWrite(BaseSeek(b, s.start), s.buffer), b.pos),
          err |-> "none"]

\* a flush that cuts the base off after the relocated tail
FlushTruncating(s, b) ==
    IF s.closed \/ b.closed THEN [s |-> s, b |-> b, err |-> "none"]
    ELSE [s |-> s,
          b |-> BaseSeek(
                    BaseTruncate(
                        BaseWrite(BaseSeek(b, s.start),
                                  s.buffer \o PySliceFrom(b.content, s.end))),
                    b.pos),
          err |-> "none"]

\* SubTextIO.flush: the base after the buffer is reconciled into it.  A base
\* that is closed fails in tell(); a base that cannot be written or read
\* fails in write() or read(), after which the cursor is still restored.
Flush(s, b) ==
    IF s.closed THEN [s |-> s, b |-> b, err |-> "none"]
    ELSE IF b.closed THEN [s |-> s, b |-> b, err |-> "ValueError"]
    ELSE LET base_initial_position == b.pos
         IN  IF Len(s.buffer) = s.initial_length \/ s.is_at_end
             THEN LET b1 == BaseSeek(b, s.start)
                  IN  IF ~BaseWritable(b)
                      THEN [s |-> s, b |-> BaseSeek(b1, base_initial_position),
                            err |-> "UnsupportedOperation"]
                      ELSE [s |-> s,
                            b |-> BaseSeek(BaseWrite(b1, s.buffer),
                                           base_initial_position),
                            err |-> "none"]
             ELSE LET b1 == BaseSeek(b, s.end)
                  IN  IF ~BaseReadable(b)
                      THEN [s |-> s, b |-> BaseSeek(b1, base_initial_position),
                            err |-> "UnsupportedOperation"]
                      ELSE LET content_after == BaseReadText(b1, -1)
                               b2 == BaseSeek(BaseAfterRead(b1, -1), s.start)
                           IN  IF ~BaseWritable(b)
                               THEN [s |-> s,
                                     b |-> BaseSeek(b2, base_initial_position),
                                     err |-> "UnsupportedOperation"]
                               ELSE [s |-> s,
                                     b |-> BaseSeek(
                                         BaseWrite(b2, s.buffer \o content_after),
                                         base_initial_position),
                                     err |-> "none"]

\* a close that leaves the stream open when its flush fails
CloseUnlessFlushFails(s, b) ==
    IF s.closed THEN [s |-> s, b |-> b, err |-> "none"]
    ELSE [s |-> [s EXCEPT !.closed = (Flush(s, b).err = "none")],
          b |-> Flush(s, b).b, err |-> Flush(s, b).err]

\* SubTextIO.close: flush, and closed is set whether or not flush failed
Close(s, b) ==
    IF s.closed THEN [s |-> s, b |-> b, err |-> "none"]
    ELSE LET r == Flush(s, b)
         IN  [s |-> [r.s EXCEPT !.closed = TRUE], b |-> r.b, err |-> r.err]

----------------------------------------------------------------------------
(* Streams held by the mapping.  A "sub" stream is a SubTextIO; a "sio"    *)
(* stream is the in-memory text stream a caller hands to __setitem__, with *)
(* the behaviour of the base stream model (no clamping of the cursor).     *)

StringIO(content) ==
    [NoStream EXCEPT !.kind = "sio", !.buffer = content]

\* a "sio" stream seen as a base stream record, and back
AsBase(s) == [content |-> s.buffer, pos |-> s.position, closed |-> s.closed,
              mode |-> "r+"]
FromBase(s, b) == [s EXCEPT !.buffer = b.content, !.position = b.pos]

\* descriptor.seek(offset)
StreamSeek(s, offset) ==
    IF s.kind = "sub" THEN Seek(s, offset, SEEK_SET)
    ELSE IF s.closed THEN [s |-> s, ret |-> 0, err |-> ClosedError(s)]
    ELSE IF offset < 0 THEN [s |-> s, ret |-> 0, err |-> "ValueError"]
    ELSE [s |-> [s EXCEPT !.position = offset], ret |-> offset, err |-> "none"]

\* descriptor.tell()
StreamTell(s) == Tell(s)

\* descriptor.read(size)
StreamRead(s, size) ==
    IF s.kind = "sub" THEN Read(s, size)
    ELSE IF s.closed THEN [s |-> s, ret |-> <<>>, err |-> ClosedError(s)]
    ELSE [s |-> FromBase(s, BaseAfterRead(AsBase(s), size)),
          ret |-> BaseReadText(AsBase(s), size), err |-> "none"]

\* descriptor.write(text)
StreamWrite(s, text) ==
    IF s.kind = "sub" THEN Write(s, text)
    ELSE IF s.closed THEN [s |-> s, ret |-> 0, err |-> ClosedError(s)]
    ELSE [s |-> FromBase(s, BaseWrite(AsBase(s), text)),
          ret |-> Len(text), err |-> "none"]

\* descriptor.truncate(), at the cursor
StreamTruncate(s) ==
    IF s.kind = "sub" THEN Truncate(s, <<>>)
    ELSE IF s.closed THEN [s |-> s, ret |-> 0, err |-> ClosedError(s)]
    ELSE [s |-> FromBase(s, BaseTruncate(AsBase(s))),
          ret |-> s.position, err |-> "none"]

----------------------------------------------------------------------------
(* MultiCSVFile.  The object is a record [exists, sections, need_flush,    *)
(* closed, own]; sections is a sequence of [name, descriptor].             *)

NoFile ==
    [exists |-> FALSE, sections |-> <<>>, need_flush |-> FALSE,
     closed |-> FALSE, own |-> FALSE]

\* a header test that does not strip the first cell
HeaderOfUnstripped(text) ==
    LET line  == IF text # <<>> /\ text[Len(text)] = NL
                 THEN PySliceTo(text, -1) ELSE text
        row   == PySplit(line, ",")
        first == row[1]
        rest  == Tail(row)
    IN  IF /\ first # <<>> /\ first[1] = "["
           /\ first[Len(first)] = "]"
           /\ \A k \in 1 .. Len(rest) : rest[k] = <<>>
        THEN <<PySlice(first, 1, -1)>>
        ELSE <<>>

\* the name a line announces, as <<name>>, or <<>> when the line is no header
\* (the test of _initialize_sections_wrapped)
HeaderOf(text) ==
    LET line  == IF text # <<>> /\ text[Len(text)] = NL
                 THEN PySliceTo(text, -1) ELSE text
        row   == PySplit(line, ",")
        first == PyStrip(row[1])
        rest  == Tail(row)
    IN  IF /\ first # <<>> /\ first[1] = "["
           /\ first[Len(first)] = "]"
           /\ \A k \in 1 .. Len(rest) : rest[k] = <<>>
        THEN <<PySlice(first, 1, -1)>>
        ELSE <<>>

\* end_section of _initialize_sections_wrapped
EndSection(b, current_section, section_start, previous_position, sections) ==
    IF current_section = <<>> THEN sections
    ELSE Append(sections,
                [name |-> current_section[1],
                 descriptor |-> SubTextIOInit(b, section_start,
                                              previous_position).s])

\* the loop of _initialize_sections_wrapped, from the base cursor on
RECURSIVE ParseLoop(_, _, _, _, _)
ParseLoop(b, current_section, section_start, previous_position, sections) ==
    LET line == BaseLineText(b)
    IN  IF line = <<>>
        THEN EndSection(b, current_section, section_start, previous_position,
                        sections)
        ELSE LET after == BaseAfterLine(b)
                 current_position == previous_position + Len(line)
                 header == HeaderOf(line)
             IN  IF header # <<>>
                 THEN ParseLoop(after, header, current_position, current_position,
                                EndSection(after, current_section, section_start,
                                           previous_position, sections))
                 ELSE ParseLoop(after, current_section, section_start,
                                current_position, sections)

\* MultiCSVFile._initialize_sections_wrapped
InitializeSections(b) ==
    IF Len(b.content) = 0 THEN <<>>
    ELSE ParseLoop(BaseSeek(b, 0), <<>>, 0, 0, <<>>)

\* a construction whose parse leaves the base cursor where it ended
MultiCSVFileInitLeavingCursor(b, own) ==
    IF b.closed THEN [f |-> NoFile, b |-> b, err |-> "ValueError"]
    ELSE IF Len(b.content) > 0 /\ ~BaseReadable(b)
    THEN [f |-> NoFile, b |-> BaseSeek(b, 0), err |-> "UnsupportedOperation"]
    ELSE [f |-> [exists |-> TRUE, sections |-> InitializeSections(b),
                 need_flush |-> FALSE, closed |-> FALSE, own |-> own],
          b |-> BaseSeekEnd(b), err |-> "none"]

\* MultiCSVFile.__init__: the parse leaves the base cursor where it was; a
\* closed base fails in tell(), a base that cannot be read in readline()
MultiCSVFileInit(b, own) ==
    IF b.closed THEN [f |-> NoFile, b |-> b, err |-> "ValueError"]
    ELSE IF Len(b.content) > 0 /\ ~BaseReadable(b)
    THEN [f |-> NoFile, b |-> b, err |-> "UnsupportedOperation"]
    ELSE [f |-> [exists |-> TRUE, sections |-> InitializeSections(b),
                 need_flush |-> FALSE, closed |-> FALSE, own |-> own],
          b |-> b, err |-> "none"]

\* the index of the first section named key, or 0
Find(sections, key) ==
    LET hits == {k \in 1 .. Len(sections) : sections[k].name = key}
    IN  IF hits = {} THEN 0 ELSE CHOOSE k \in hits : \A j \in hits : k <= j

\* a lookup that hands the stream out with its cursor where it was
GetItemKeepingCursor(f, key) ==
    IF f.closed THEN [f |-> f, ret |-> 0, err |-> "OpOnClosedCSVFileError"]
    ELSE LET k == Find(f.sections, key)
         IN  IF k = 0 THEN [f |-> f, ret |-> 0, err |-> "SectionNotFound"]
             ELSE [f |-> f, ret |-> k, err |-> "none"]

\* MultiCSVFile.__getitem__: ret is the index of the stream handed out
GetItem(f, key) ==
    IF f.closed THEN [f |-> f, ret |-> 0, err |-> "OpOnClosedCSVFileError"]
    ELSE LET k == Find(f.sections, key)
         IN  IF k = 0 THEN [f |-> f, ret |-> 0, err |-> "SectionNotFound"]
             ELSE LET r == StreamSeek(f.sections[k].descriptor, 0)
                  IN  [f |-> [f EXCEPT !.sections[k].descriptor = r.s],
                       ret |-> IF r.err = "none" THEN k ELSE 0, err |-> r.err]

\* an assignment that always adds an entry at the end
SetItemAppending(f, key, value) ==
    IF f.closed THEN [f |-> f, ret |-> 0, err |-> "OpOnClosedCSVFileError"]
    ELSE [f |-> [f EXCEPT !.sections =
                              Append(@, [name |-> key, descriptor |-> value]),
                          !.need_flush = TRUE],
          ret |-> 0, err |-> "none"]

\* MultiCSVFile.__setitem__
SetItem(f, key, value) ==
    IF f.closed THEN [f |-> f, ret |-> 0, err |-> "OpOnClosedCSVFileError"]
    ELSE LET k == Find(f.sections, key)
             section == [name |-> key, descriptor |-> value]
         IN  [f |-> [f EXCEPT !.sections = IF k = 0 THEN Append(@, section)
                                           ELSE [@ EXCEPT ![k] = section],
                              !.need_flush = TRUE],
              ret |-> 0, err |-> "none"]

\* a deletion that takes an absent name for done
DelItemIgnoringAbsent(f, key) ==
    IF f.closed THEN [f |-> f, ret |-> 0, err |-> "OpOnClosedCSVFileError"]
    ELSE LET found == Find(f.sections, key)
         IN  [f |-> [f EXCEPT !.sections = IF found = 0 THEN @
                                           ELSE SubSeq(@, 1, found - 1)
                                                \o SubSeq(@, found + 1, Len(@)),
                              !.need_flush = TRUE],
              ret |-> 0, err |-> "none"]

\* MultiCSVFile.__delitem__
DelItem(f, key) ==
    IF f.closed THEN [f |-> f, ret |-> 0, err |-> "OpOnClosedCSVFileError"]
    ELSE LET found == Find(f.sections, key)
         IN  IF found = 0 THEN [f |-> f, ret |-> 0, err |-> "SectionNotFound"]
             ELSE [f |-> [f EXCEPT !.sections = SubSeq(@, 1, found - 1)
                                        \o SubSeq(@, found + 1, Len(@)),
                                   !.need_flush = TRUE],
                   ret |-> 0, err |-> "none"]

\* MultiCSVFile.__iter__
Names(f) == [k \in 1 .. Len(f.sections) |-> f.sections[k].name]

\* list(iter(file)): __iter__ checks that the mapping is open
Iterate(f) ==
    IF f.closed THEN [ret |-> <<>>, err |-> "OpOnClosedCSVFileError"]
    ELSE [ret |-> Names(f), err |-> "none"]

\* MultiCSVFile.__contains__
Contains(f, key) == Find(f.sections, key) # 0

\* key in file: __contains__ checks that the mapping is open
ContainsKey(f, key) ==
    IF f.closed THEN [ret |-> FALSE, err |-> "OpOnClosedCSVFileError"]
    ELSE [ret |-> Contains(f, key), err |-> "none"]

\* len(file): __len__ does not check that the mapping is open
Length(f) == [ret |-> Len(f.sections), err |-> "none"]

\* a copy that starts at the cursor of the descriptor
CopyStartAtCursor(s) == s.position

\* where _write_section starts to copy the descriptor from
CopyStart(s) == 0

\* MultiCSVFile._write_section: the header, then the descriptor copied from
\* its start (shutil.copyfileobj reads it to its end), its cursor put back
WriteSection(section, b) ==
    LET header == <<"[">> \o section.name \o <<"]", NL>>
        b1 == BaseWrite(b, header)
        d  == section.descriptor
        t  == StreamTell(d)
    IN  IF t.err # "none" THEN [d |-> d, b |-> b1, err |-> t.err]
        ELSE LET s0 == StreamSeek(d, CopyStart(d))
                 rd == StreamRead(s0.s, -1)
                 b2 == BaseWrite(b1, rd.ret)
                 back == StreamSeek(rd.s, t.ret)
             IN  [d |-> back.s, b |-> b2, err |-> "none"]

\* the loop of MultiCSVFile._write_file over the sections from k on; r ranges
\* over a singleton so that each section is written once per evaluation
RECURSIVE WriteSections(_, _, _)
WriteSections(sections, k, b) ==
    IF k > Len(sections) THEN [sections |-> sections, b |-> b, err |-> "none"]
    ELSE CHOOSE out \in
             { IF r.err # "none"
               THEN [sections |-> [sections EXCEPT ![k].descriptor = r.d],
                     b |-> r.b, err |-> r.err]
               ELSE WriteSections([sections EXCEPT ![k].descriptor = r.d],
                                  k + 1, r.b)
               : r \in {WriteSection(sections[k], b)} } : TRUE

\* MultiCSVFile._write_file
WriteFile(f, b) ==
    IF ~BaseWritable(b)
    THEN [sections |-> f.sections, b |-> BaseSeek(b, 0),
          err |-> "UnsupportedOperation"]
    ELSE WriteSections(f.sections, 1, BaseTruncate(BaseSeek(b, 0)))

\* a flush that looks at the dirty flag before it looks at the base
FileFlushCleanFirst(f, b) ==
    IF ~f.need_flush THEN [f |-> f, b |-> b, err |-> "none"]
    ELSE IF b.closed THEN [f |-> f, b |-> b, err |-> "CSVFileBaseIOClosed"]
    ELSE LET initial_file_pos == b.pos
         IN  CHOOSE out \in
                 { [f |-> [f EXCEPT !.sections = r.sections,
                                    !.need_flush = IF r.err = "none" THEN FALSE
                                                   ELSE f.need_flush],
                    b |-> BaseSeek(r.b, initial_file_pos),
                    err |-> r.err]
                   : r \in {WriteFile(f, b)} } : TRUE

\* MultiCSVFile.flush
FileFlush(f, b) ==
    IF b.closed THEN [f |-> f, b |-> b, err |-> "CSVFileBaseIOClosed"]
    ELSE IF ~f.need_flush THEN [f |-> f, b |-> b, err |-> "none"]
    ELSE LET initial_file_pos == b.pos
         IN  CHOOSE out \in
                 { [f |-> [f EXCEPT !.sections = r.sections,
                                    !.need_flush = IF r.err = "none" THEN FALSE
                                                   ELSE f.need_flush],
                    b |-> BaseSeek(r.b, initial_file_pos),
                    err |-> r.err]
                   : r \in {WriteFile(f, b)} } : TRUE

\* a close that leaves every base open
FileCloseBorrowing(f, b) ==
    IF f.closed THEN [f |-> f, b |-> b, err |-> "none"]
    ELSE CHOOSE out \in
             { [f |-> [r.f EXCEPT !.closed = TRUE], b |-> r.b, err |-> r.err]
               : r \in {FileFlush(f, b)} } : TRUE

\* MultiCSVFile.close
FileClose(f, b) ==
    IF f.closed THEN [f |-> f, b |-> b, err |-> "none"]
    ELSE CHOOSE out \in
             { [f |-> [r.f EXCEPT !.closed = TRUE],
                b |-> IF f.own THEN [r.b EXCEPT !.closed = TRUE] ELSE r.b,
                err |-> r.err]
               : r \in {FileFlush(f, b)} } : TRUE

----------------------------------------------------------------------------
(* What the specifications share.                                          *)

\* base0: the base content at construction; pending: a write or truncate of
\* sub since its last flush (for the mapping: a set or delete since its last
\* flush); flushes: the flushes of sub; lines: the lines the base of a
\* MultiCSVFile was made of; sets: the sets and deletes since construction;
\* edited: the sections written or truncated through their streams
NoHist ==
    [base0 |-> <<>>, pending |-> FALSE, flushes |-> 0, lines |-> <<>>,
     sets |-> 0, edited |-> {}]

\* the record of a call; a call that raised records no argument and no result
Call(op, arg, ret, err) ==
    IF err = "none" THEN [op |-> op, arg |-> arg, ret |-> ret, err |-> err]
    ELSE [op |-> op, arg |-> <<>>, ret |-> <<>>, err |-> err]

NoCall == Call("none", <<>>, <<>>, "none")

RangeEnds == -1 .. MaxBase + 1

\* sub = SubTextIO(base, start, end)
SubConstruct ==
    \E start \in RangeEnds, end \in RangeEnds :
        /\ sub.kind = "none"
        /\ last.op = "none"
        /\ LET r == SubTextIOInit(base, start, end)
           IN  /\ sub' = r.s
               /\ base' = r.b
               /\ hist' = [NoHist EXCEPT !.base0 = base.content]
               /\ last' = [op |-> "init", arg |-> <<start, end>>, ret |-> <<>>,
                           err |-> r.err]
        /\ UNCHANGED file

\* a method whose write or truncate goes through to the base at once
SubStepWritingThrough(op, arg, r, modifies) ==
    /\ sub' = r.s
    /\ last' = Call(op, arg, r.ret, r.err)
    /\ hist' = IF modifies /\ r.err = "none"
               THEN [hist EXCEPT !.pending = TRUE] ELSE hist
    /\ base' = IF modifies /\ r.err = "none"
               THEN BaseWrite(BaseSeek(base, r.s.start), r.s.buffer) ELSE base
    /\ UNCHANGED file

\* the effect of a method that touches only the stream; modifies says that
\* it is a write or a truncate
SubStep(op, arg, r, modifies) ==
    /\ sub' = r.s
    /\ last' = Call(op, arg, r.ret, r.err)
    /\ hist' = IF modifies /\ r.err = "none"
               THEN [hist EXCEPT !.pending = TRUE] ELSE hist
    /\ UNCHANGED <<base, file>>

\* the effect of flush() or close(): r is what Flush or Close gives
SubSync(op, r) ==
    /\ sub' = r.s
    /\ base' = r.b
    /\ last' = Call(op, <<>>, <<>>, r.err)
    /\ hist' = IF ~sub.closed /\ r.err = "none"
               THEN [hist EXCEPT !.pending = FALSE, !.flushes = hist.flushes + 1]
               ELSE hist
    /\ UNCHANGED file

----------------------------------------------------------------------------
(* SpecStream: one SubTextIO over a readable, writable base of at most     *)
(* MaxBase characters, driven by every method that works on the buffer,    *)
(* and by close.                                                            *)

SubChars == {"a", NL}
WriteTexts == {<<>>, <<"x">>, <<NL>>, <<"x", NL>>}
WriteLists == {<<>>, <<<<"x">>, <<NL>>>>, <<<<NL>>, <<>>, <<"x">>>>}
Sizes == {-1, 0, 1, 2}
Offsets == {-1, 0, 1, MaxBuf + 1}
Whences == {SEEK_SET, SEEK_CUR, SEEK_END, 3}
TruncateSizes == {<<>>} \cup {<<n>> : n \in {0, 1, MaxBuf + 1}}

InitStream ==
    /\ base \in [content : SeqsUpTo(SubChars, MaxBase), pos : {1},
                 closed : {FALSE}, mode : {"r+"}]
    /\ sub = NoStream
    /\ file = NoFile
    /\ hist = NoHist
    /\ last = NoCall

SubRead ==
    \E size \in Sizes :
        sub.kind = "sub" /\ SubStep("read", size, Read(sub, size), FALSE)

SubReadline ==
    \E limit \in Sizes :
        sub.kind = "sub" /\ SubStep("readline", limit, Readline(sub, limit), FALSE)

SubReadlines ==
    \E hint \in Sizes :
        sub.kind = "sub" /\ SubStep("readlines", hint, Readlines(sub, hint), FALSE)

SubSeekIn(offsets, whences) ==
    \E offset \in offsets, whence \in whences :
        sub.kind = "sub"
        /\ SubStep("seek", <<offset, whence>>, Seek(sub, offset, whence), FALSE)

SubSeek == SubSeekIn(Offsets, Whences)

SubTell ==
    sub.kind = "sub" /\ SubStep("tell", <<>>, Tell(sub), FALSE)

SubWriteIn(texts) ==
    \E text \in texts :
        /\ sub.kind = "sub"
        /\ Max(Len(sub.buffer), sub.position) + Len(text) <= MaxBuf
        /\ SubStep("write", text, Write(sub, text), TRUE)

SubWrite == SubWriteIn(WriteTexts)

SubWritelines ==
    \E lines \in WriteLists :
        /\ sub.kind = "sub"
        /\ Max(Len(sub.buffer), sub.position) + Len(Concat(lines)) <= MaxBuf
        /\ SubStep("writelines", lines, Writelines(sub, lines), TRUE)

SubTruncateIn(sizes) ==
    \E size \in sizes :
        sub.kind = "sub" /\ SubStep("truncate", size, Truncate(sub, size), TRUE)

SubTruncate == SubTruncateIn(TruncateSizes)

SubClose ==
    sub.kind = "sub" /\ SubSync("close", Close(sub, base))

NextStream ==
    \/ SubConstruct
    \/ SubRead
    \/ SubReadline
    \/ SubReadlines
    \/ SubSeek
    \/ SubTell
    \/ SubWrite
    \/ SubWritelines
    \/ SubTruncate
    \/ SubClose

SpecStream == InitStream /\ [][NextStream]_vars

----------------------------------------------------------------------------
(* SpecFlush: one SubTextIO over a readable, writable base, rewritten      *)
(* through write, truncate and seek and reconciled into the base by flush  *)
(* and close, at most MaxFlushes times; a second SubTextIO reads the       *)
(* result back.                                                            *)

\* the bases: every prefix of "abcd" up to MaxBase characters, so that each
\* character of a base tells where it was
FlushLetters == <<"a", "b", "c", "d">>
FlushBases == {SubSeq(FlushLetters, 1, n) : n \in 0 .. MaxBase}
FlushTexts == {<<"x">>, <<"x", "y">>}
FlushOffsets == {0}
FlushWhences == {SEEK_SET, SEEK_END}
FlushSizes == {<<>>, <<0>>, <<1>>}

InitFlush ==
    /\ base \in [content : FlushBases, pos : {1},
                 closed : {FALSE}, mode : {"r+"}]
    /\ sub = NoStream
    /\ file = NoFile
    /\ hist = NoHist
    /\ last = NoCall

FlushWrite == SubWriteIn(FlushTexts)

FlushSeek == SubSeekIn(FlushOffsets, FlushWhences)

FlushTruncate == SubTruncateIn(FlushSizes)

\* sub.flush()
SubFlush ==
    /\ sub.kind = "sub"
    /\ sub.closed \/ hist.flushes < MaxFlushes
    /\ SubSync("flush", Flush(sub, base))

\* sub.close(), while flushes are left
FlushClose ==
    /\ sub.closed \/ hist.flushes < MaxFlushes
    /\ SubClose

\* SubTextIO(base, sub.start, sub.start + len(buffer of sub)).read(): a second
\* stream over the range the buffer of sub takes in the base
SubReopen ==
    /\ sub.kind = "sub"
    /\ LET start == sub.start
           end   == sub.start + Len(sub.buffer)
           r     == SubTextIOInit(base, start, end)
       IN  /\ base' = r.b
           /\ last' = Call("reopen", <<start, end>>,
                           IF r.err = "none" THEN Read(r.s, -1).ret ELSE <<>>,
                           r.err)
    /\ UNCHANGED <<sub, file, hist>>

NextFlush ==
    \/ SubConstruct
    \/ FlushWrite
    \/ FlushSeek
    \/ FlushTruncate
    \/ SubFlush
    \/ FlushClose
    \/ SubReopen

SpecFlush == InitFlush /\ [][NextFlush]_vars

----------------------------------------------------------------------------
(* SpecClose: one SubTextIO over a base that is writable or read-only,     *)
(* written to, flushed and closed; on a read-only base flush fails.        *)

CloseModes == {"r+", "r"}

InitClose ==
    /\ base \in [content : FlushBases, pos : {1},
                 closed : {FALSE}, mode : CloseModes]
    /\ sub = NoStream
    /\ file = NoFile
    /\ hist = NoHist
    /\ last = NoCall

NextClose ==
    \/ SubConstruct
    \/ FlushWrite
    \/ SubFlush
    \/ FlushClose

SpecClose == InitClose /\ [][NextClose]_vars

----------------------------------------------------------------------------
(* SpecConstruct: the construction of a SubTextIO over a base of any mode, *)
(* open or closed, with its cursor at the start or past it.                *)

BaseModes == {"r+", "r", "w", "pipe"}
ConstructPositions == {0, 1}

InitConstruct ==
    /\ base \in [content : SeqsUpTo(SubChars, MaxBase),
                 pos : ConstructPositions, closed : BOOLEAN, mode : BaseModes]
    /\ sub = NoStream
    /\ file = NoFile
    /\ hist = NoHist
    /\ last = NoCall

NextConstruct == SubConstruct

SpecConstruct == InitConstruct /\ [][NextConstruct]_vars

----------------------------------------------------------------------------
(* SpecFile: a MultiCSVFile over a readable, writable base made of at most *)
(* MaxLines lines, driven by get, set, delete, flush and close and by      *)
(* reads, writes and truncates on the streams of its sections.             *)

HeaderLine(name) == <<"[">> \o name \o <<"]", NL>>
Keys == {<<"a">>, <<"c">>}
DataLines == {<<"1", ",", "2", NL>>}
FileLines == {HeaderLine(<<"a">>), HeaderLine(<<"b">>)} \cup DataLines
SetContents == {<<>>, <<"5", NL>>}
SectionTexts == {<<"9">>}
SectionSizes == {-1}

InitFile ==
    /\ \E lines \in SeqsUpTo(FileLines, MaxLines) :
          /\ base = [content |-> Concat(lines), pos |-> 1, closed |-> FALSE,
                     mode |-> "r+"]
          /\ hist = [NoHist EXCEPT !.lines = lines]
    /\ sub = NoStream
    /\ file = NoFile
    /\ last = NoCall

\* file = MultiCSVFile(base, own)
FileConstruct ==
    \E own \in {FALSE} :
        /\ ~file.exists
        /\ last.op = "none"
        /\ LET r == MultiCSVFileInit(base, own)
           IN  /\ file' = r.f
               /\ base' = r.b
               /\ last' = Call("fileinit", own, <<>>, r.err)
        /\ hist' = [hist EXCEPT !.base0 = base.content]
        /\ UNCHANGED sub

\* file[key]
FileGet ==
    \E key \in Keys :
        /\ file.exists
        /\ LET r == GetItem(file, key)
           IN  /\ file' = r.f
               /\ last' = Call("get", key, r.ret, r.err)
        /\ UNCHANGED <<base, sub, hist>>

\* file[key] = io.StringIO(content)
FileSet ==
    \E key \in Keys, content \in SetContents :
        /\ file.exists
        /\ hist.sets + Cardinality(hist.edited) < MaxOps
        /\ Contains(file, key) \/ Len(file.sections) < MaxSections
        /\ LET r == SetItem(file, key, StringIO(content))
           IN  /\ file' = r.f
               /\ last' = Call("set", <<key, content>>, <<>>, r.err)
               /\ hist' = IF r.err = "none"
                          THEN [hist EXCEPT !.pending = TRUE, !.sets = @ + 1]
                          ELSE hist
        /\ UNCHANGED <<base, sub>>

\* del file[key]
FileDelete ==
    \E key \in Keys :
        /\ file.exists
        /\ hist.sets + Cardinality(hist.edited) < MaxOps
        /\ LET r == DelItem(file, key)
           IN  /\ file' = r.f
               /\ last' = Call("delete", key, <<>>, r.err)
               /\ hist' = IF r.err = "none"
                          THEN [hist EXCEPT !.pending = TRUE, !.sets = @ + 1]
                          ELSE hist
        /\ UNCHANGED <<base, sub>>

\* the effect of a method of the stream of section k
SectionStep(op, k, arg, r, modifies) ==
    /\ file' = [file EXCEPT !.sections[k].descriptor = r.s]
    /\ last' = Call(op, <<k, arg>>, r.ret, r.err)
    /\ hist' = IF modifies /\ r.err = "none"
               THEN [hist EXCEPT !.edited = @ \cup {k}] ELSE hist
    /\ UNCHANGED <<base, sub>>

\* stream.read(size), for the stream of a section
SectionRead ==
    \E k \in 1 .. Len(file.sections), size \in SectionSizes :
        SectionStep("secread", k, size,
                    StreamRead(file.sections[k].descriptor, size), FALSE)

\* stream.write(text), for the stream of a section
SectionWrite ==
    \E k \in 1 .. Len(file.sections), text \in SectionTexts :
        /\ hist.sets + Cardinality(hist.edited \cup {k}) <= MaxOps
        /\ file.sections[k].descriptor.position + Len(text)
              <= Max(Len(file.sections[k].descriptor.buffer), MaxBuf)
        /\ SectionStep("secwrite", k, text,
                       StreamWrite(file.sections[k].descriptor, text), TRUE)

\* stream.truncate(), for the stream of a section
SectionTruncate ==
    \E k \in 1 .. Len(file.sections) :
        /\ hist.sets + Cardinality(hist.edited \cup {k}) <= MaxOps
        /\ SectionStep("sectruncate", k, <<>>,
                       StreamTruncate(file.sections[k].descriptor), TRUE)

\* file.flush()
FileFlushes ==
    /\ file.exists
    /\ \E r \in {FileFlush(file, base)} :
           /\ file' = r.f
           /\ base' = r.b
           /\ last' = Call("fflush", <<>>, <<>>, r.err)
           /\ hist' = IF r.err = "none" THEN [hist EXCEPT !.pending = FALSE]
                      ELSE hist
    /\ UNCHANGED sub

\* file.close()
FileCloses ==
    /\ file.exists
    /\ \E r \in {FileClose(file, base)} :
           /\ file' = r.f
           /\ base' = r.b
           /\ last' = Call("fclose", <<>>, <<>>, r.err)
           /\ hist' = IF r.err = "none" /\ ~file.closed
                      THEN [hist EXCEPT !.pending = FALSE] ELSE hist
    /\ UNCHANGED sub

NextFile ==
    \/ FileConstruct
    \/ FileGet
    \/ FileSet
    \/ FileDelete
    \/ SectionRead
    \/ SectionWrite
    \/ SectionTruncate
    \/ FileFlushes
    \/ FileCloses

SpecFile == InitFile /\ [][NextFile]_vars

----------------------------------------------------------------------------
(* Properties of the buffer operations, checked under SpecStream.          *)

\* C1: for 0 <= start <= end <= len(base), also end = len(base), read() right
\* after construction returns base[start:end].
ReadAfterConstruct ==
    [][/\ last.op = "init" /\ last.err = "none"
       /\ last'.op = "read" /\ last'.err = "none" /\ last'.arg = -1
       /\ 0 <= sub.start /\ sub.start <= sub.end /\ sub.end <= Len(base.content)
       => last'.ret = SubSeq(base.content, sub.start + 1, sub.end)
    ]_vars

\* C9, as claimed: in every reachable state of a SubTextIO the cursor
\* satisfies 0 <= cursor <= len(buffer).
CursorWithinBuffer ==
    sub.kind = "sub" => 0 <= sub.position /\ sub.position <= Len(sub.buffer)

\* C9, amended: the cursor is never negative; cursor <= len(buffer) holds
\* after construction, is preserved by every call but truncate, and holds
\* again after every seek.  truncate cuts the buffer and leaves the cursor
\* where it was, so the cursor may lie past the end of the buffer.
CursorBounds ==
    /\ [](sub.position >= 0)
    /\ [][last'.op = "init" => sub'.position <= Len(sub'.buffer)]_vars
    /\ [][sub.position <= Len(sub.buffer) /\ last'.op # "truncate"
            => sub'.position <= Len(sub'.buffer)]_vars
    /\ [][last'.op = "seek" /\ last'.err = "none"
            => sub'.position <= Len(sub'.buffer)]_vars
    /\ [][last'.op = "truncate" => sub'.position = sub.position]_vars

\* a write has moved the cursor to the end of a buffer it filled
CursorBoundsWitness ==
    /\ sub.kind = "sub"
    /\ last.op = "write"
    /\ last.err = "none"
    /\ sub.position = MaxBuf
    /\ Len(sub.buffer) = MaxBuf

\* C10: write(text) on an open SubTextIO overwrites at the cursor: character
\* by character the new buffer is old[:cursor] + text + old[cursor+len(text):],
\* the buffer grows exactly when the write extends past the old end, the
\* cursor advances by len(text) and the call returns len(text).
WriteOverwrites ==
    [][last'.op = "write" /\ last'.err = "none" =>
          LET text == last'.arg
              old  == sub.buffer
              new  == sub'.buffer
              from == Min(sub.position, Len(old))
              skip == sub.position - from
          IN  /\ Len(new) = Max(Len(old), from + Len(text))
              /\ \A i \in 1 .. Len(new) :
                    new[i] = IF i <= from THEN old[i]
                             ELSE IF i <= from + Len(text) THEN text[i - from]
                             ELSE old[i + skip]
              /\ sub'.position = sub.position + Len(text)
              /\ last'.ret = Len(text)
              /\ base' = base
    ]_vars

\* one character was written over the first of two, and the second is kept
WriteOverwritesWitness ==
    /\ last.op = "write"
    /\ last.err = "none"
    /\ last.arg = <<NL>>
    /\ sub.position = 1
    /\ sub.buffer = <<NL, "x">>

----------------------------------------------------------------------------
(* Properties of flush and close, checked under SpecFlush.                 *)

\* C3: a flush() or close() of an open SubTextIO issued when no write or
\* truncate has happened since construction or since the previous flush
\* leaves the content of the base unchanged, also when the buffer had grown
\* or shrunk before that previous flush.
FlushWithoutPendingKeepsBase ==
    [][/\ last'.op \in {"flush", "close"}
       /\ sub.kind = "sub" /\ ~sub.closed
       /\ ~hist.pending
       => base'.content = base.content
    ]_vars

\* C8: once the content of a SubTextIO over [start, end) was replaced by c and
\* flushed (the first flush), a new SubTextIO over [start, start + len(c)) of
\* the resulting base reads c.
RoundTrip ==
    /\ last.op = "reopen"
    /\ hist.flushes = 1 /\ ~hist.pending
    /\ last.arg = <<sub.start, sub.start + Len(sub.buffer)>>
    => last.err = "none" /\ last.ret = sub.buffer

----------------------------------------------------------------------------
(* Properties of the mapping, checked under SpecFile.                      *)

\* the lines of a base that are section headers to the parser
Heads(lines) == {i \in 1 .. Len(lines) : HeaderOf(lines[i]) # <<>>}

\* the first header line of lines after line h, or the line past the last
NextHead(lines, h) ==
    LET later == {j \in Heads(lines) : j > h} \cup {Len(lines) + 1}
    IN  CHOOSE e \in later : \A j \in later : e <= j

\* the base text between the k-th header line and the next header line
BlockText(lines, k) ==
    LET h == CHOOSE i \in Heads(lines) :
                 Cardinality({j \in Heads(lines) : j <= i}) = k
    IN  Concat(SubSeq(lines, h + 1, NextHead(lines, h) - 1))

\* a base of well-formed sections: it starts with a header line, each of
\* its lines is a header line "[name]\n" or a data line, and no name is
\* announced twice
WellFormed(lines) ==
    /\ lines # <<>> => HeaderOf(lines[1]) # <<>>
    /\ \A i, j \in Heads(lines) : lines[i] = lines[j] => i = j
    /\ \A i \in 1 .. Len(lines) :
          \/ lines[i] \in DataLines
          \/ /\ HeaderOf(lines[i]) # <<>>
             /\ lines[i] = HeaderLine(HeaderOf(lines[i])[1])

\* what _write_file makes of a mapping: for each section in order its
\* header line and the whole content of its stream
Serialize(sections) ==
    Concat([k \in 1 .. Len(sections) |->
               HeaderLine(sections[k].name) \o sections[k].descriptor.buffer])

\* part is a run of consecutive characters of text
Occurs(part, text) ==
    \E i \in 0 .. Len(text) - Len(part) :
        SubSeq(text, i + 1, i + Len(part)) = part

\* C2: after a MultiCSVFile is constructed, and before any change to the
\* mapping or to a section, file[name].read() returns the base text between
\* the header line of that section and the next header line, or the end of
\* the base when no header follows; the last section is no exception.
SectionReadsItsBlock ==
    [][/\ last.op = "get" /\ last.err = "none"
       /\ hist.sets = 0 /\ hist.edited = {}
       /\ last'.op = "secread" /\ last'.err = "none"
       /\ last'.arg = <<last.ret, -1>>
       => last'.ret = BlockText(hist.lines, last.ret)
    ]_vars

\* C4: when a set or delete has happened since the last flush and the base
\* is open, flush() leaves the base equal to the concatenation, in mapping
\* order, of "[name]\n" and the whole content of the stream of each section,
\* wherever the cursors of these streams are; the cursors and contents of
\* the streams are as before, and need_flush is cleared.
FlushSerializes ==
    [][/\ last'.op = "fflush"
       /\ hist.pending /\ ~base.closed
       => /\ last'.err = "none"
          /\ base'.content = Serialize(file.sections)
          /\ file'.sections = file.sections
          /\ ~file'.need_flush
          /\ base'.pos = base.pos
    ]_vars

\* a flush wrote a mapping that has a section set by the caller and a
\* section whose cursor stands past its first character
FlushSerializesWitness ==
    /\ last.op = "fflush" /\ last.err = "none"
    /\ hist.sets > 0
    /\ base.content = Serialize(file.sections)
    /\ base.content # hist.base0
    /\ \E k \in 1 .. Len(file.sections) :
          /\ file.sections[k].descriptor.position > 0
          /\ file.sections[k].descriptor.position
                <= Len(file.sections[k].descriptor.buffer)

\* C5: after a write or truncate through the stream of a section, with no
\* set or delete, flush() on the open mapping makes the base contain the
\* header line of each such section followed by its new content.
FlushReflectsSectionEdits ==
    [][/\ last'.op = "fflush" /\ last'.err = "none"
       /\ ~file.closed
       /\ hist.sets = 0 /\ hist.edited # {}
       => \A k \in hist.edited :
             Occurs(HeaderLine(file.sections[k].name)
                        \o file.sections[k].descriptor.buffer,
                    base'.content)
    ]_vars

\* C6: over a base of well-formed sections, a set of a name that is not
\* present to a stream with content c, followed by flush(), leaves the base
\* equal to the original content followed by "[name]\n" and c.
SetAppendsSection ==
    [][/\ last.op = "set" /\ last.err = "none"
       /\ hist.sets = 1 /\ hist.edited = {}
       /\ WellFormed(hist.lines)
       /\ \A i \in 1 .. Len(hist.lines) : hist.lines[i] # HeaderLine(last.arg[1])
       /\ last'.op = "fflush"
       => /\ last'.err = "none"
          /\ base'.content = hist.base0 \o HeaderLine(last.arg[1]) \o last.arg[2]
    ]_vars

\* C7: over a base of well-formed sections, a delete of a section that is
\* present, followed by flush(), leaves the base equal to the original
\* content without the header line and the content of that section.
DeleteRemovesSection ==
    [][/\ last.op = "delete" /\ last.err = "none"
       /\ hist.sets = 1 /\ hist.edited = {}
       /\ WellFormed(hist.lines)
       /\ last'.op = "fflush"
       => /\ last'.err = "none"
          /\ LET h == CHOOSE i \in 1 .. Len(hist.lines) :
                         /\ hist.lines[i] = HeaderLine(last.arg)
                         /\ \A j \in 1 .. i - 1 :
                               hist.lines[j] # HeaderLine(last.arg)
             IN  base'.content =
                     Concat(SubSeq(hist.lines, 1, h - 1)
                            \o SubSeq(hist.lines, NextHead(hist.lines, h),
                                      Len(hist.lines)))
    ]_vars

----------------------------------------------------------------------------
(* Properties of the first flush and of flushes of an unchanged length,    *)
(* checked under SpecFlush.                                                *)

\* C11: when the buffer is as long at flush time as it was loaded at
\* construction, flush() changes only base[start : start + len(buffer)),
\* which becomes the buffer; every other character of the base and the
\* length of the base are unchanged.
FlushSameLengthInPlace ==
    [][/\ last'.op = "flush"
       /\ sub.kind = "sub" /\ ~sub.closed
       /\ Len(sub.buffer) = sub.initial_length
       => /\ last'.err = "none"
          /\ Len(base'.content) = Len(base.content)
          /\ sub.start + Len(sub.buffer) <= Len(base.content)
          /\ \A i \in 1 .. Len(base.content) :
                base'.content[i] =
                    IF sub.start < i /\ i <= sub.start + Len(sub.buffer)
                    THEN sub.buffer[i - sub.start]
                    ELSE base.content[i]
          /\ base'.pos = base.pos
    ]_vars

\* the one character of the range [0, 1) of "ab" was overwritten and flushed
FlushSameLengthInPlaceWitness ==
    /\ last.op = "flush" /\ last.err = "none"
    /\ sub.start = 0 /\ sub.initial_length = 1
    /\ sub.buffer = <<"x">>
    /\ hist.base0 = <<"a", "b">>
    /\ base.content = <<"x", "b">>

\* C12: for a range that ends before the end of the base, when the buffer
\* has grown beyond end - start, the first flush() leaves the base equal to
\* base0[:start] + buffer + base0[end:]: what followed the range is moved,
\* not overwritten.
FirstFlushGrownRelocates ==
    [][/\ last'.op = "flush"
       /\ sub.kind = "sub" /\ ~sub.closed
       /\ hist.flushes = 0
       /\ sub.end < Len(hist.base0)
       /\ Len(sub.buffer) > sub.end - sub.start
       => /\ last'.err = "none"
          /\ base'.content = PySliceTo(hist.base0, sub.start) \o sub.buffer
                                \o PySliceFrom(hist.base0, sub.end)
    ]_vars

\* two characters were written over the range [0, 1) of "ab" and flushed
FirstFlushGrownRelocatesWitness ==
    /\ last.op = "flush" /\ last.err = "none"
    /\ hist.flushes = 1
    /\ sub.start = 0 /\ sub.end = 1
    /\ sub.buffer = <<"x", "y">>
    /\ hist.base0 = <<"a", "b">>
    /\ base.content = <<"x", "y", "b">>

\* C13: for a range that ends before the end of the base, when the buffer
\* was cut to fewer than end - start characters, the first flush() does not
\* shorten the base: it becomes base0[:start] + buffer + base0[end:] followed
\* by the last end - start - len(buffer) characters of base0.
FirstFlushShrunkKeepsLength ==
    [][/\ last'.op = "flush"
       /\ sub.kind = "sub" /\ ~sub.closed
       /\ hist.flushes = 0
       /\ sub.end < Len(hist.base0)
       /\ Len(sub.buffer) < sub.end - sub.start
       => /\ last'.err = "none"
          /\ Len(base'.content) = Len(hist.base0)
          /\ base'.content =
                PySliceTo(hist.base0, sub.start) \o sub.buffer
                   \o PySliceFrom(hist.base0, sub.end)
                   \o PySliceFrom(hist.base0,
                                  Len(hist.base0)
                                     - (sub.end - sub.start - Len(sub.buffer)))
    ]_vars

\* the range [0, 1) of "ab" was cut to nothing and flushed
FirstFlushShrunkKeepsLengthWitness ==
    /\ last.op = "flush" /\ last.err = "none"
    /\ hist.flushes = 1
    /\ sub.start = 0 /\ sub.end = 1
    /\ sub.buffer = <<>>
    /\ hist.base0 = <<"a", "b">>
    /\ base.content = <<"b", "b">>

----------------------------------------------------------------------------
(* Properties of a closed stream and of seek and truncate, checked under   *)
(* SpecStream.                                                             *)

\* C14: on a SubTextIO that is closed, each of read, readline, readlines,
\* truncate, write, seek and tell fails with OpOnClosedError and leaves the
\* buffer, the cursor, the closed flag and the base as they were.
ClosedStreamRefuses ==
    [][/\ sub.kind = "sub" /\ sub.closed
       /\ last'.op \in {"read", "readline", "readlines", "truncate", "write",
                        "seek", "tell"}
       => /\ last'.err = "OpOnClosedError"
          /\ sub' = sub
          /\ base' = base
    ]_vars

\* a truncate was refused by a closed stream that holds text and whose
\* cursor is past its first character
ClosedStreamRefusesWitness ==
    /\ sub.kind = "sub" /\ sub.closed
    /\ last.op = "truncate" /\ last.err = "OpOnClosedError"
    /\ sub.buffer # <<>>
    /\ sub.position > 0

----------------------------------------------------------------------------
(* Properties of close, checked under SpecClose.                           *)

\* C15: close() on an open SubTextIO does to the base what flush() does,
\* raises what flush() raises, and leaves the stream closed also when that
\* flush fails; a close() or flush() of a closed stream changes neither the
\* base nor the stream and raises nothing.
CloseFlushesThenCloses ==
    [][/\ sub.kind = "sub" /\ ~sub.closed /\ last'.op = "close"
          => /\ base' = Flush(sub, base).b
             /\ last'.err = Flush(sub, base).err
             /\ sub' = [sub EXCEPT !.closed = TRUE]
       /\ sub.kind = "sub" /\ sub.closed /\ last'.op \in {"close", "flush"}
          => /\ base' = base
             /\ sub' = sub
             /\ last'.err = "none"
    ]_vars

\* a close over a read-only base failed in its flush and the stream, with
\* its unwritten text, is closed
CloseFlushesThenClosesWitness ==
    /\ sub.kind = "sub" /\ sub.closed
    /\ last.op = "close" /\ last.err = "UnsupportedOperation"
    /\ base.mode = "r"
    /\ sub.buffer # <<>>
    /\ base.content = hist.base0

\* the cursor a seek asks for, before it is clamped into the buffer
SeekTarget(s, offset, whence) ==
    IF whence = SEEK_SET THEN offset
    ELSE IF whence = SEEK_CUR THEN s.position + offset
    ELSE Len(s.buffer) + offset

\* C16: seek(offset, whence) on an open SubTextIO does not fail for whence
\* SEEK_SET, SEEK_CUR or SEEK_END: it sets the cursor to
\* max(0, min(target, len(buffer))) and returns it, and tell() then reports
\* it; for any other whence it fails with InvalidWhenceError and leaves the
\* stream as it was.  The first conjunct asks it of every seek an open stream
\* could be given, the others of the seek and tell steps taken.
SeekClamps ==
    /\ [](sub.kind = "sub" /\ ~sub.closed =>
             \A offset \in Offsets, whence \in Whences :
                 LET r == Seek(sub, offset, whence)
                 IN  IF whence \in {SEEK_SET, SEEK_CUR, SEEK_END}
                     THEN /\ r.err = "none"
                          /\ r.ret = Max(0, Min(SeekTarget(sub, offset, whence),
                                                Len(sub.buffer)))
                          /\ r.s = [sub EXCEPT !.position = r.ret]
                          /\ Tell(r.s).err = "none"
                          /\ Tell(r.s).ret = r.ret
                     ELSE r.err = "InvalidWhenceError" /\ r.s = sub)
    /\ [][sub.kind = "sub" /\ ~sub.closed /\ last'.op = "seek" =>
             IF last'.err = "none"
             THEN /\ last'.arg[2] \in {SEEK_SET, SEEK_CUR, SEEK_END}
                  /\ last'.ret = Max(0, Min(SeekTarget(sub, last'.arg[1],
                                                       last'.arg[2]),
                                            Len(sub.buffer)))
                  /\ sub' = [sub EXCEPT !.position = last'.ret]
                  /\ base' = base
             ELSE /\ last'.err = "InvalidWhenceError"
                  /\ sub' = sub
                  /\ base' = base
       ]_vars
    /\ [][sub.kind = "sub" /\ ~sub.closed /\ last'.op = "tell" =>
             last'.err = "none" /\ last'.ret = sub.position /\ sub' = sub
       ]_vars

\* a seek from the cursor to past the end of a buffer that holds text was
\* clamped to the end
SeekClampsWitness ==
    /\ sub.kind = "sub" /\ ~sub.closed
    /\ last.op = "seek" /\ last.err = "none"
    /\ last.arg = <<MaxBuf + 1, SEEK_CUR>>
    /\ sub.buffer # <<>>
    /\ last.ret = Len(sub.buffer)
    /\ sub.position = Len(sub.buffer)

\* C17: on an open SubTextIO truncate(n) with n >= len(buffer) leaves the
\* buffer unchanged, truncate(n) with 0 <= n < len(buffer) keeps exactly the
\* first n characters, and truncate() cuts at the cursor; the cursor is not
\* moved, the base is not touched and the new length of the buffer is
\* returned.
TruncateCuts ==
    [][sub.kind = "sub" /\ ~sub.closed /\ last'.op = "truncate" =>
          /\ last'.err = "none"
          /\ LET n == IF last'.arg = <<>> THEN sub.position ELSE last'.arg[1]
             IN  /\ n >= Len(sub.buffer) => sub'.buffer = sub.buffer
                 /\ 0 <= n /\ n < Len(sub.buffer)
                       => sub'.buffer = SubSeq(sub.buffer, 1, n)
          /\ sub' = [sub EXCEPT !.buffer = sub'.buffer]
          /\ base' = base
          /\ last'.ret = Len(sub'.buffer)
    ]_vars

\* truncate(n) with n past the end of a buffer that holds text returned the
\* length of that buffer
TruncateCutsWitness ==
    /\ sub.kind = "sub" /\ ~sub.closed
    /\ last.op = "truncate" /\ last.err = "none"
    /\ last.arg = <<MaxBuf + 1>>
    /\ sub.buffer # <<>>
    /\ last.ret = Len(sub.buffer)
    /\ sub.position > 0

----------------------------------------------------------------------------
(* Properties of the construction of a SubTextIO, checked under            *)
(* SpecConstruct.  last.arg is <<start, end>>.                             *)

\* C18: the construction of a SubTextIO over a range that starts within an
\* open, seekable, readable base and ends beyond its content
\* (0 <= start <= len(base) < end) fails with EndsBeyondBaseContent and gives
\* no stream.
RangeBeyondBaseFails ==
    [][/\ last'.op = "init"
       /\ ~base.closed /\ base.mode \in {"r+", "r"}
       /\ 0 <= last'.arg[1]
       /\ last'.arg[1] <= Len(base.content)
       /\ Len(base.content) < last'.arg[2]
       => /\ last'.err = "EndsBeyondBaseContent"
          /\ sub'.kind = "none"
    ]_vars

\* C19: the construction fails with InvalidSubtextCoordinates when
\* end < start or start < 0, whatever the base is, and with
\* StartsBeyondBaseContent when the range is valid, the base passes the
\* capability checks and start is greater than the length of the base; in
\* both cases there is no stream and the content and the cursor of the base
\* are as before.
ConstructRejectsBadRange ==
    [][last'.op = "init" =>
          LET start == last'.arg[1]
              end   == last'.arg[2]
          IN  /\ end < start \/ start < 0
                 => /\ last'.err = "InvalidSubtextCoordinates"
                    /\ sub'.kind = "none"
                    /\ base' = base
              /\ /\ 0 <= start /\ start <= end
                 /\ start > Len(base.content)
                 /\ ~base.closed /\ base.mode # "pipe"
                 /\ end = start \/ base.mode \in {"r+", "r"}
                 => /\ last'.err = "StartsBeyondBaseContent"
                    /\ sub'.kind = "none"
                    /\ base' = base
    ]_vars

\* a construction that starts past the end of a base that has content, and
\* whose cursor is not at its end, was refused
ConstructRejectsBadRangeWitness ==
    /\ last.op = "init" /\ last.err = "StartsBeyondBaseContent"
    /\ sub.kind = "none"
    /\ last.arg[1] > Len(base.content)
    /\ Len(base.content) > 1
    /\ base.pos = 1

\* C20: over an open base and a valid range the construction fails with
\* BaseMustBeSeakable when the base cannot seek; when it can, the
\* construction fails with BaseMustBeReadable exactly when the range is not
\* empty and the base cannot be read; an empty range within a base that
\* cannot be read gives a stream with an empty buffer and leaves the base
\* as it was.
ConstructChecksCapabilities ==
    [][/\ last'.op = "init"
       /\ 0 <= last'.arg[1] /\ last'.arg[1] <= last'.arg[2]
       /\ ~base.closed
       => LET start    == last'.arg[1]
              end      == last'.arg[2]
              seekable == base.mode # "pipe"
              readable == base.mode \in {"r+", "r"}
          IN  /\ ~seekable => last'.err = "BaseMustBeSeakable"
              /\ seekable => (last'.err = "BaseMustBeReadable"
                                <=> end > start /\ ~readable)
              /\ seekable /\ ~readable /\ end = start
                    /\ start <= Len(base.content)
                 => /\ last'.err = "none"
                    /\ sub'.kind = "sub" /\ sub'.buffer = <<>>
                    /\ ~sub'.closed
                    /\ base' = base
    ]_vars

\* an empty range at the end of a write-only base that has content was
\* given a stream
ConstructChecksCapabilitiesWitness ==
    /\ last.op = "init" /\ last.err = "none"
    /\ base.mode = "w"
    /\ sub.kind = "sub"
    /\ last.arg = <<Len(base.content), Len(base.content)>>
    /\ Len(base.content) > 0

----------------------------------------------------------------------------
(* Properties of flush over a read-only base, checked under SpecClose.     *)

\* C21: on a base that can be read but not written, flush() of an open
\* SubTextIO whose buffer was never written or truncated raises nothing and
\* leaves the base as it was, however often it is called.
FlushUnmodifiedReadOnly ==
    [][/\ last'.op = "flush"
       /\ sub.kind = "sub" /\ ~sub.closed
       /\ base.mode = "r"
       /\ ~hist.pending /\ hist.flushes = 0
       => /\ last'.err = "none"
          /\ base' = base
    ]_vars

----------------------------------------------------------------------------
(* Properties of the entries of the mapping, checked under SpecFile.       *)

\* C22: in every state of a MultiCSVFile, right after the parse of any base
\* and after any sets and deletes, no two entries of the mapping have the
\* same name.
UniqueNames ==
    file.exists =>
        \A i, j \in 1 .. Len(file.sections) :
            file.sections[i].name = file.sections[j].name => i = j

----------------------------------------------------------------------------
(* SpecParse: the parse of a base made of at most MaxLines lines, with or  *)
(* without a last line that has no line end, and the iteration over the    *)
(* names it found.  The lines are headers in the plain form, a header with *)
(* a padded first cell and an empty second cell, a line whose first cell   *)
(* looks like a header but whose second cell is not empty, and data.       *)

PaddedHeader == <<" ", "[", "a", "]", ",", NL>>
HeaderWithData == <<"[", "a", "]", ",", "1", NL>>
OpenHeader == <<"[", "b", "]">>
OpenData == <<"1">>
ParseLines ==
    {HeaderLine(<<"a">>), HeaderLine(<<"b">>), PaddedHeader, HeaderWithData}
        \cup DataLines
ParseEnds == {<<>>, OpenHeader, OpenData}

InitParse ==
    /\ \E lines \in SeqsUpTo(ParseLines, MaxLines), tail \in ParseEnds :
          LET all == IF tail = <<>> THEN lines ELSE Append(lines, tail)
          IN  /\ base = [content |-> Concat(all), pos |-> 1, closed |-> FALSE,
                         mode |-> "r+"]
              /\ hist = [NoHist EXCEPT !.lines = all]
    /\ sub = NoStream
    /\ file = NoFile
    /\ last = NoCall

\* list(iter(file))
FileIter ==
    /\ file.exists
    /\ last' = Call("iter", <<>>, Iterate(file).ret, Iterate(file).err)
    /\ UNCHANGED <<base, sub, file, hist>>

NextParse ==
    \/ FileConstruct
    \/ FileIter

SpecParse == InitParse /\ [][NextParse]_vars

----------------------------------------------------------------------------
(* Properties of the parse, checked under SpecParse.                       *)

\* the name each line of the bases of SpecParse announces, as <<name>>, or
\* <<>> for a line that is no header
ExpectedHeader(line) ==
    IF line \in {HeaderLine(<<"a">>), PaddedHeader} THEN <<<<"a">>>>
    ELSE IF line \in {HeaderLine(<<"b">>), OpenHeader} THEN <<<<"b">>>>
    ELSE <<>>

\* the names of the header lines of a base, in base order
RECURSIVE HeaderNames(_)
HeaderNames(lines) ==
    IF lines = <<>> THEN <<>>
    ELSE ExpectedHeader(Head(lines)) \o HeaderNames(Tail(lines))

\* the offset behind the first header line of a base
FirstSectionStart(lines) ==
    LET heads == {i \in 1 .. Len(lines) : ExpectedHeader(lines[i]) # <<>>}
        h     == CHOOSE i \in heads : \A j \in heads : i <= j
    IN  Len(Concat(SubSeq(lines, 1, h)))

ParseFindsNoHeaderWitness ==
    /\ last.op = "iter" /\ last.err = "none"
    /\ hist.lines = <<HeaderWithData, OpenData>>
    /\ last.ret = <<>>
    /\ file.sections = <<>>

----------------------------------------------------------------------------
(* Properties of the operations of the mapping, checked under SpecFile.    *)

\* C24: on an open mapping, get(name) for a name of the mapping raises
\* nothing; it hands out a stream of that name with its cursor at offset 0,
\* wherever the cursor was, and changes neither the content of that stream,
\* nor anything else of the mapping, nor the base.
GetRewinds ==
    /\ [](file.exists /\ ~file.closed
          => \A key \in Keys :
                 (\E k \in 1 .. Len(file.sections) :
                      file.sections[k].name = key)
                 => GetItem(file, key).err = "none")
    /\ [][last'.op = "get" /\ last'.err = "none"
          => /\ last'.ret \in 1 .. Len(file.sections)
             /\ file.sections[last'.ret].name = last'.arg
             /\ file'.sections[last'.ret].descriptor.position = 0
             /\ file' = [file EXCEPT
                            !.sections[last'.ret].descriptor.position = 0]
             /\ base' = base
       ]_vars

\* get handed out, at offset 0, the stream of a section that a write had
\* extended and left with its cursor behind the written text
GetRewindsWitness ==
    /\ last.op = "get" /\ last.err = "none"
    /\ last.ret \in hist.edited
    /\ file.sections[last.ret].descriptor.position = 0
    /\ \E t \in SectionTexts :
           Occurs(t, file.sections[last.ret].descriptor.buffer)

\* C25: on an open mapping, get(name) and delete(name) for a name that no
\* entry carries, a name deleted earlier included, raise SectionNotFound and
\* leave the mapping, the dirty flag and the base as they were.
AbsentNameNotFound ==
    /\ [](file.exists /\ ~file.closed
          => \A key \in Keys :
                 (\A k \in 1 .. Len(file.sections) :
                      file.sections[k].name # key)
                 => /\ GetItem(file, key).err = "SectionNotFound"
                    /\ GetItem(file, key).f = file
                    /\ DelItem(file, key).err = "SectionNotFound"
                    /\ DelItem(file, key).f = file)
    /\ [][/\ last'.op \in {"get", "delete"}
          /\ ~file.closed
          /\ last'.err # "none"
          => /\ last'.err = "SectionNotFound"
             /\ file' = file
             /\ base' = base
       ]_vars

\* get failed for the name of a parsed section that was deleted before
AbsentNameNotFoundWitness ==
    /\ last.op = "get" /\ last.err = "SectionNotFound"
    /\ hist.sets = 1
    /\ \E i \in 1 .. Len(hist.lines) : hist.lines[i] = HeaderLine(<<"a">>)
    /\ \A k \in 1 .. Len(file.sections) : file.sections[k].name # <<"a">>
    /\ file.need_flush

\* delete failed for a name that the mapping never had
AbsentNameDeleteWitness ==
    /\ last.op = "delete" /\ last.err = "SectionNotFound"
    /\ ~file.need_flush
    /\ file.sections # <<>>

\* C26: on an open mapping, set(name, stream) raises nothing and leaves the
\* base alone; for a name of the mapping it puts the stream in the place of
\* that entry, the names and their order staying as they were and the other
\* entries untouched; for any other name it adds the entry at the end; either
\* way the dirty flag is true afterwards.
SetReplacesOrAppends ==
    /\ [](file.exists /\ ~file.closed
          => \A key \in Keys, content \in SetContents :
                 SetItem(file, key, StringIO(content)).err = "none")
    /\ [][last'.op = "set" /\ last'.err = "none"
          => LET key   == last'.arg[1]
                 entry == [name |-> key, descriptor |-> StringIO(last'.arg[2])]
                 hits  == {k \in 1 .. Len(file.sections) :
                               file.sections[k].name = key}
             IN  /\ file'.need_flush
                 /\ base' = base
                 /\ hits # {}
                    => /\ Names(file') = Names(file)
                       /\ \E k \in hits :
                              file'.sections = [file.sections EXCEPT ![k] = entry]
                 /\ hits = {}
                    => file'.sections = Append(file.sections, entry)
       ]_vars

\* set put a new stream in the place of the first of two parsed sections
SetReplacesOrAppendsWitness ==
    /\ last.op = "set" /\ last.err = "none"
    /\ Len(file.sections) = 2
    /\ last.arg[1] = file.sections[1].name
    /\ file.sections[1].descriptor = StringIO(last.arg[2])
    /\ file.sections[2].descriptor.kind = "sub"
    /\ file.need_flush

\* set added an entry behind a parsed section
SetAppendsWitness ==
    /\ last.op = "set" /\ last.err = "none"
    /\ Len(file.sections) = 2
    /\ last.arg[1] = file.sections[2].name
    /\ file.sections[1].name # file.sections[2].name
    /\ file.sections[1].descriptor.kind = "sub"
    /\ file.sections[2].descriptor = StringIO(last.arg[2])
    /\ file.need_flush

----------------------------------------------------------------------------
(* SpecIndex: the life of a mapping that owns or borrows its base.  The    *)
(* mapping is changed by set and delete, flushed and closed; the base may  *)
(* be closed from outside, and so may the streams of the parsed sections.  *)

Owns == BOOLEAN

InitIndex ==
    /\ \E lines \in SeqsUpTo(FileLines, MaxLines) :
          /\ base = [content |-> Concat(lines), pos |-> 0, closed |-> FALSE,
                     mode |-> "r+"]
          /\ hist = [NoHist EXCEPT !.lines = lines]
    /\ sub = NoStream
    /\ file = NoFile
    /\ last = NoCall

\* file = MultiCSVFile(base, own), for an owned and for a borrowed base
IndexConstruct ==
    \E own \in Owns :
        /\ ~file.exists
        /\ last.op = "none"
        /\ LET r == MultiCSVFileInit(base, own)
           IN  /\ file' = r.f
               /\ base' = r.b
               /\ last' = Call("fileinit", own, <<>>, r.err)
        /\ hist' = [hist EXCEPT !.base0 = base.content]
        /\ UNCHANGED sub

\* base.close(), by whoever holds the base
BaseCloses ==
    /\ file.exists
    /\ ~base.closed
    /\ base' = [base EXCEPT !.closed = TRUE]
    /\ last' = Call("baseclose", <<>>, <<>>, "none")
    /\ UNCHANGED <<sub, file, hist>>

\* stream.close(), for the stream of a parsed section
SectionCloses ==
    \E k \in 1 .. Len(file.sections) :
        /\ file.sections[k].descriptor.kind = "sub"
        /\ \E r \in {Close(file.sections[k].descriptor, base)} :
               /\ file' = [file EXCEPT !.sections[k].descriptor = r.s]
               /\ base' = r.b
               /\ last' = Call("secclose", k, <<>>, r.err)
        /\ UNCHANGED <<sub, hist>>

NextIndex ==
    \/ IndexConstruct
    \/ FileSet
    \/ FileDelete
    \/ FileFlushes
    \/ FileCloses
    \/ BaseCloses
    \/ SectionCloses

SpecIndex == InitIndex /\ [][NextIndex]_vars

----------------------------------------------------------------------------
(* SpecStale: a borrowing mapping over a base of well-formed sections of   *)
(* at most MaxLines + 1 lines, so that a section with data can stand       *)
(* between two others.  The mapping is changed by set and delete and       *)
(* flushed; the streams of the parsed sections are flushed and closed on   *)
(* their own.                                                              *)

StaleLines ==
    {HeaderLine(<<"a">>), HeaderLine(<<"b">>), HeaderLine(<<"c">>)}
        \cup DataLines

InitStale ==
    /\ \E lines \in SeqsUpTo(StaleLines, MaxLines + 1) :
          /\ WellFormed(lines)
          /\ base = [content |-> Concat(lines), pos |-> 0, closed |-> FALSE,
                     mode |-> "r+"]
          /\ hist = [NoHist EXCEPT !.lines = lines]
    /\ sub = NoStream
    /\ file = NoFile
    /\ last = NoCall

\* stream.flush(), for the stream of a parsed section
SectionFlushes ==
    \E k \in 1 .. Len(file.sections) :
        /\ file.sections[k].descriptor.kind = "sub"
        /\ \E r \in {Flush(file.sections[k].descriptor, base)} :
               /\ file' = [file EXCEPT !.sections[k].descriptor = r.s]
               /\ base' = r.b
               /\ last' = Call("secflush", k, <<>>, r.err)
        /\ UNCHANGED <<sub, hist>>

NextStale ==
    \/ FileConstruct
    \/ FileSet
    \/ FileDelete
    \/ FileFlushes
    \/ SectionFlushes
    \/ SectionCloses

SpecStale == InitStale /\ [][NextStale]_vars

----------------------------------------------------------------------------
(* Properties of flush and close of the mapping, checked under SpecIndex.  *)

\* C27: flush() of an open mapping whose base was closed from outside raises
\* CSVFileBaseIOClosed and leaves the mapping, its dirty flag included, as
\* it was.
FlushOnClosedBaseFails ==
    [][/\ last'.op = "fflush"
       /\ ~file.closed
       /\ base.closed
       => /\ last'.err = "CSVFileBaseIOClosed"
          /\ file' = file
          /\ base' = base
    ]_vars

\* flush failed on an open, borrowing mapping with a change pending
FlushOnClosedBaseFailsWitness ==
    /\ last.op = "fflush" /\ last.err = "CSVFileBaseIOClosed"
    /\ ~file.closed /\ ~file.own
    /\ base.closed
    /\ file.need_flush

\* flush failed on an open, borrowing mapping with nothing pending
FlushOnClosedBaseCleanWitness ==
    /\ last.op = "fflush" /\ last.err = "CSVFileBaseIOClosed"
    /\ ~file.closed /\ ~file.own
    /\ base.closed
    /\ ~file.need_flush

\* C28: flush() of a mapping that is closed, over a base that is closed too
\* (as after close() of a mapping that owns its base), raises nothing and
\* writes nothing.
FlushAfterCloseIsNoOp ==
    [][/\ last'.op = "fflush"
       /\ file.closed
       /\ base.closed
       => /\ last'.err = "none"
          /\ file' = file
          /\ base' = base
    ]_vars

\* C29: close() of a closed mapping raises nothing and changes nothing.
\* close() of an open mapping over an open base, the streams of its sections
\* open, raises nothing, leaves the mapping closed and clean with the entries
\* it had, leaves in the base the header and content of each entry in order
\* when a set or delete was pending and the base content as it was when none
\* was, and closes the base exactly when the mapping owns it.
CloseWritesOnce ==
    [][last'.op = "fclose"
       => /\ file.closed
             => /\ last'.err = "none"
                /\ file' = file
                /\ base' = base
          /\ (/\ ~file.closed
              /\ ~base.closed
              /\ \A k \in 1 .. Len(file.sections) :
                     ~file.sections[k].descriptor.closed)
             => /\ last'.err = "none"
                /\ file'.closed
                /\ ~file'.need_flush
                /\ file'.sections = file.sections
                /\ base'.content = IF file.need_flush
                                   THEN Serialize(file.sections)
                                   ELSE base.content
                /\ base'.closed = file.own
    ]_vars

\* an owning mapping was closed with a set or delete pending: the base holds
\* the new content and is closed
CloseWritesOnceWitness ==
    /\ last.op = "fclose" /\ last.err = "none"
    /\ file.closed /\ file.own
    /\ base.closed
    /\ hist.sets = 1
    /\ base.content = Serialize(file.sections)
    /\ base.content # hist.base0

\* a borrowing mapping was closed with a set or delete pending: the base
\* holds the new content and is open
CloseBorrowedWitness ==
    /\ last.op = "fclose" /\ last.err = "none"
    /\ file.closed /\ ~file.own
    /\ ~base.closed
    /\ hist.sets = 1
    /\ base.content = Serialize(file.sections)
    /\ base.content # hist.base0

----------------------------------------------------------------------------
(* Properties of the streams of a rewritten base, checked under SpecStale. *)

\* C30: once flush() of the mapping has rewritten the base after a set or a
\* delete, flush() and close() of the stream of a parsed section leave the
\* base content as it is.
SectionFlushKeepsRewrittenBase ==
    [][/\ last'.op \in {"secflush", "secclose"}
       /\ hist.sets > 0
       /\ ~file.need_flush
       /\ ~base.closed
       => base'.content = base.content
    ]_vars

----------------------------------------------------------------------------
(* SpecCursor: a base whose cursor stands at the start, inside or beyond   *)
(* its content, readable and writable, read-only or write-only, under      *)
(* either a SubTextIO that is written and flushed or a MultiCSVFile that   *)
(* is changed and flushed.                                                 *)

CursorLines == {HeaderLine(<<"a">>)} \cup DataLines
CursorPositions == {0, 1, MaxBase + 3}
CursorModes == {"r+", "r", "w"}

InitCursor ==
    /\ \E lines \in SeqsUpTo(CursorLines, MaxLines) :
          /\ base \in [content : {Concat(lines)}, pos : CursorPositions,
                       closed : {FALSE}, mode : CursorModes]
          /\ hist = [NoHist EXCEPT !.lines = lines]
    /\ sub = NoStream
    /\ file = NoFile
    /\ last = NoCall

NextCursor ==
    \/ SubConstruct
    \/ FlushWrite
    \/ SubFlush
    \/ FileConstruct
    \/ FileSet
    \/ FileFlushes

SpecCursor == InitCursor /\ [][NextCursor]_vars

----------------------------------------------------------------------------
(* Properties of the base cursor, checked under SpecCursor.                *)

\* C31: the construction of a SubTextIO, flush() of a SubTextIO, the
\* construction of a MultiCSVFile and flush() of a MultiCSVFile leave the
\* cursor of the base where it was before the call, whether the call raises
\* or not.
BaseCursorRestored ==
    [][last'.op \in {"init", "flush", "fileinit", "fflush"}
       => base'.pos = base.pos
    ]_vars

\* flush() of a mapping rewrote a base whose cursor stood inside the content
BaseCursorRestoredWitness ==
    /\ last.op = "fflush" /\ last.err = "none"
    /\ base.content # hist.base0
    /\ base.pos = 1

\* flush() of a SubTextIO failed on a read-only base whose cursor stood
\* beyond the content
BaseCursorFlushFailsWitness ==
    /\ last.op = "flush" /\ last.err = "UnsupportedOperation"
    /\ base.mode = "r"
    /\ base.pos = MaxBase + 3
    /\ base.pos > Len(base.content)

\* flush() of a SubTextIO moved the text behind its range
BaseCursorFlushWitness ==
    /\ last.op = "flush" /\ last.err = "none"
    /\ base.content # hist.base0
    /\ Len(sub.buffer) # sub.initial_length
    /\ base.pos = 1

\* a SubTextIO was constructed over a range it read from the base
BaseCursorLoadWitness ==
    /\ last.op = "init" /\ last.err = "none"
    /\ sub.buffer # <<>>
    /\ base.pos = 1

\* the construction of a MultiCSVFile failed on a write-only base
BaseCursorParseFailsWitness ==
    /\ last.op = "fileinit" /\ last.err = "UnsupportedOperation"
    /\ base.pos = 1

\* a MultiCSVFile was constructed over a base with a section
BaseCursorParseWitness ==
    /\ last.op = "fileinit" /\ last.err = "none"
    /\ file.sections # <<>>
    /\ base.pos = 1

----------------------------------------------------------------------------
(* SpecFrame: a base under either a SubTextIO or a MultiCSVFile, driven by *)
(* every method that works on the buffer or on the mapping, with flush and *)
(* close in between, so that the methods are also called on streams and    *)
(* mappings that were flushed or closed.                                   *)

FrameLines == {HeaderLine(<<"a">>)}
FrameSizes == {1}
FrameOffsets == {1}
FrameWhences == {SEEK_SET}
FrameTexts == {<<"x">>}
FrameLists == {<<<<"x">>, <<NL>>>>}
FrameTruncateSizes == {<<>>}

InitFrame ==
    /\ \E lines \in SeqsUpTo(FrameLines, MaxLines) :
          /\ base = [content |-> Concat(lines), pos |-> 1, closed |-> FALSE,
                     mode |-> "r+"]
          /\ hist = [NoHist EXCEPT !.lines = lines]
    /\ sub = NoStream
    /\ file = NoFile
    /\ last = NoCall

FrameRead ==
    \E size \in FrameSizes :
        sub.kind = "sub" /\ SubStep("read", size, Read(sub, size), FALSE)

FrameReadline ==
    \E limit \in FrameSizes :
        sub.kind = "sub" /\ SubStep("readline", limit, Readline(sub, limit), FALSE)

FrameReadlines ==
    \E hint \in FrameSizes :
        sub.kind = "sub" /\ SubStep("readlines", hint, Readlines(sub, hint), FALSE)

FrameSeek == SubSeekIn(FrameOffsets, FrameWhences)

FrameWrite == SubWriteIn(FrameTexts)

FrameWritelines ==
    \E lines \in FrameLists :
        /\ sub.kind = "sub"
        /\ Max(Len(sub.buffer), sub.position) + Len(Concat(lines)) <= MaxBuf
        /\ SubStep("writelines", lines, Writelines(sub, lines), TRUE)

FrameTruncate == SubTruncateIn(FrameTruncateSizes)

\* key in file
FileContains ==
    \E key \in Keys :
        /\ file.exists
        /\ last' = Call("contains", key, ContainsKey(file, key).ret,
                        ContainsKey(file, key).err)
        /\ UNCHANGED <<base, sub, file, hist>>

\* len(file)
FileLen ==
    /\ file.exists
    /\ last' = Call("len", <<>>, Length(file).ret, Length(file).err)
    /\ UNCHANGED <<base, sub, file, hist>>

NextFrame ==
    \/ SubConstruct
    \/ FrameRead
    \/ FrameReadline
    \/ FrameReadlines
    \/ FrameSeek
    \/ SubTell
    \/ FrameWrite
    \/ FrameWritelines
    \/ FrameTruncate
    \/ SubFlush
    \/ FlushClose
    \/ FileConstruct
    \/ FileGet
    \/ FileSet
    \/ FileDelete
    \/ FileIter
    \/ FileContains
    \/ FileLen
    \/ FileFlushes
    \/ FileCloses

SpecFrame == InitFrame /\ [][NextFrame]_vars

----------------------------------------------------------------------------
(* Properties of what reaches the base, checked under SpecFrame.           *)

OnlyFlushReachesBaseDeleteWitness ==
    /\ last.op = "delete" /\ last.err = "none"
    /\ file.need_flush
    /\ base.content = hist.base0
    /\ base.content # Serialize(file.sections)

\* a truncate emptied the buffer of a SubTextIO over a range with text, and
\* the base still holds the text
OnlyFlushReachesBaseTruncateWitness ==
    /\ last.op = "truncate" /\ last.err = "none"
    /\ sub.buffer = <<>> /\ sub.initial_length > 0
    /\ base.content = hist.base0

----------------------------------------------------------------------------
(* SpecHeader: the parse of a base made of at most MaxLines lines, among   *)
(* them a line of brackets with nothing between them.                      *)

EmptyHeader == <<"[", "]", NL>>
HeaderTestLines ==
    {HeaderLine(<<"a">>), EmptyHeader, PaddedHeader, HeaderWithData}
        \cup DataLines

InitHeader ==
    /\ \E lines \in SeqsUpTo(HeaderTestLines, MaxLines) :
          /\ base = [content |-> Concat(lines), pos |-> 0, closed |-> FALSE,
                     mode |-> "r+"]
          /\ hist = [NoHist EXCEPT !.lines = lines]
    /\ sub = NoStream
    /\ file = NoFile
    /\ last = NoCall

NextHeader ==
    \/ FileConstruct
    \/ FileIter

SpecHeader == InitHeader /\ [][NextHeader]_vars

----------------------------------------------------------------------------
(* Properties of the header test, checked under SpecHeader.                *)

\* the name a line announces by the rule of a bracketed, non-empty name in
\* the trimmed first token and nothing in the other tokens, as <<name>>, or
\* <<>> when the line starts no section
BracketedName(text) ==
    LET line  == IF text # <<>> /\ text[Len(text)] = NL
                 THEN SubSeq(text, 1, Len(text) - 1) ELSE text
        row   == PySplit(line, ",")
        first == PyStrip(row[1])
    IN  IF /\ Len(first) >= 3
           /\ first[1] = "[" /\ first[Len(first)] = "]"
           /\ \A k \in 2 .. Len(row) : row[k] = <<>>
        THEN <<SubSeq(first, 2, Len(first) - 1)>>
        ELSE <<>>

\* the names the lines of a base announce by that rule, in base order
RECURSIVE BracketedNames(_)
BracketedNames(lines) ==
    IF lines = <<>> THEN <<>>
    ELSE BracketedName(Head(lines)) \o BracketedNames(Tail(lines))

\* C33: the sections the parse finds are those of the lines whose first
\* comma-separated token, trimmed, is "[" + name + "]" with a name that is
\* not empty and whose other tokens are all empty, each named by the text
\* between the brackets; a line "[]" starts no section.
HeaderNeedsName ==
    [][last'.op = "fileinit" /\ last'.err = "none"
       => Names(file') = BracketedNames(hist.lines)
    ]_vars

----------------------------------------------------------------------------
(* Properties of flush on a base that cannot be read, checked under        *)
(* SpecCursor.                                                             *)

\* C34: on a base that can be written but not read, the first flush() of an
\* open SubTextIO constructed over a range of length zero, at the end or in
\* the middle of the base content, raises nothing, whatever was written to
\* the stream.
EmptyRangeFlushNeverReads ==
    [][/\ last'.op = "flush"
       /\ sub.kind = "sub" /\ ~sub.closed
       /\ sub.start = sub.end
       /\ base.mode = "w"
       /\ hist.flushes = 0
       => last'.err = "none"
    ]_vars

----------------------------------------------------------------------------
(* Properties of readline, checked under SpecStream.                       *)

\* the offset behind the first line end of buffer at or after offset cursor,
\* or the length of buffer when no line end follows
LineStop(buffer, cursor) ==
    LET ends == {i \in cursor + 1 .. Len(buffer) : buffer[i] = NL}
    IN  IF ends = {} THEN Len(buffer)
        ELSE CHOOSE i \in ends : \A j \in ends : i <= j

\* C35: readline(limit) of an open SubTextIO raises nothing and returns
\* buffer[cursor : k], k being the offset behind the next line end at or
\* after the cursor, or len(buffer) when there is none, and at most
\* cursor + limit when limit >= 0; the cursor moves on by the number of
\* characters returned and the buffer stays as it is; with the cursor at the
\* end, and with limit 0, the result is empty.
ReadlineReturnsLine ==
    [][last'.op = "readline" /\ sub.kind = "sub" /\ ~sub.closed
       => /\ last'.err = "none"
          /\ LET limit == last'.arg
                 k     == LineStop(sub.buffer, sub.position)
                 stop  == IF limit >= 0 THEN Min(k, sub.position + limit)
                          ELSE k
             IN  /\ last'.ret = SubSeq(sub.buffer, sub.position + 1, stop)
                 /\ limit = 0 => last'.ret = <<>>
                 /\ sub.position >= Len(sub.buffer) => last'.ret = <<>>
          /\ sub' = [sub EXCEPT !.position = sub.position + Len(last'.ret)]
          /\ base' = base
    ]_vars

\* readline(1) stopped in front of a line end that its limit did not let it
\* reach
ReadlineReturnsLineWitness ==
    /\ last.op = "readline" /\ last.err = "none"
    /\ last.arg = 1
    /\ last.ret = <<"x">>
    /\ sub.position < Len(sub.buffer)
    /\ sub.buffer[sub.position + 1] = NL

\* readline() stopped behind a line end that is not the end of the buffer
ReadlineStopsAtLineEndWitness ==
    /\ last.op = "readline" /\ last.err = "none"
    /\ last.arg = -1
    /\ Len(last.ret) = 2 /\ last.ret[2] = NL
    /\ sub.position = 2
    /\ Len(sub.buffer) = 3

\* readline() at the end of a buffer that is not empty returned nothing
ReadlineAtEndWitness ==
    /\ last.op = "readline" /\ last.err = "none"
    /\ last.arg = -1
    /\ last.ret = <<>>
    /\ sub.buffer # <<>>
    /\ sub.position = Len(sub.buffer)

====
